---- MODULE Spec2Model ----
(***************************************************************************)
(* Model of state/state.go: the account cache (State.cachedAccounts), the  *)
(* global account trie (State.trie), the per-account storage tries and the *)
(* key/value store behind them, with Root() and Commit().                  *)
(*                                                                         *)
(* The trie engine, the key/value store and rlp are external.  A trie is   *)
(* modelled by its content (key -> encoded value, <<>> for "no entry");    *)
(* its hash is collision-free, so a digest is modelled by the content it   *)
(* commits to, tagged to keep the all-zero hash cry.Hash{} apart from the  *)
(* root of an empty trie.  A trie can be opened at a root only when that   *)
(* root was committed to the store (or is the zero hash / the empty root). *)
(* Every external call may fail: each operation takes an input f naming    *)
(* the kind of external call that fails during that operation.             *)
(***************************************************************************)
EXTENDS Integers, Sequences, FiniteSets, TLC

\* ---------------------------------------------------------------- bounds
MaxSteps == 3       \* calls made in one run when external operations may fail
MaxFaults == 2      \* calls of one run during which an external operation fails
MaxCalls == 4       \* calls made in one run when no external operation fails
HashLength == 2     \* bytes of a cry.Hash in the model (32 in the program)

\* ---------------------------------------------------------------- inputs
Addresses == {"A", "B"}

ZeroBytes(n) == [i \in 1..n |-> 0]

\* cry.BytesToHash: crop from the left / extend on the left to HashLength
BytesToHash(b) ==
    IF Len(b) >= HashLength
    THEN SubSeq(b, Len(b) - HashLength + 1, Len(b))
    ELSE ZeroBytes(HashLength - Len(b)) \o b

\* cry.Hash{}
ZeroHash == ZeroBytes(HashLength)

Keys == {BytesToHash(<<1>>), BytesToHash(<<2>>)}
Values == {ZeroHash, BytesToHash(<<5>>), BytesToHash(<<200>>)}
Balances == {0, 1, 2}

\* a []byte: nil, or a byte string
NilCode == [isNil |-> TRUE, bytes |-> <<>>]
SomeCode(b) == [isNil |-> FALSE, bytes |-> b]

\* crypto.Keccak256(nil), as a cry.Hash
Keccak256Nil == BytesToHash(<<93, 133, 164, 112>>)

\* the codes given to SetCode: none, two that differ in a leading zero byte,
\* and the bytes of Keccak256(nil)
Codes == {NilCode, SomeCode(<<7>>), SomeCode(<<0, 7>>), SomeCode(Keccak256Nil)}

\* storageStep
noStorage == 0
storageSet == 1
storageUpdated == 2

\* ---------------------------------------------------------------- errors
NoError == "nil"
FaultKinds == {"trieGet", "decode", "kvGet", "kvPut", "newTrie", "storageGet",
               "split", "storageUpdate", "encode", "trieUpdate", "trieDelete",
               "storageCommit", "trieCommit"}
NoFault == "none"

\* ---------------------------------------------------------------- codec
RECURSIVE TrimLeft(_)
\* bytes.TrimLeft(value[:], "\x00")
TrimLeft(b) == IF b # <<>> /\ Head(b) = 0 THEN TrimLeft(Tail(b)) ELSE b

\* rlp.EncodeToBytes of a byte string shorter than 56 bytes
EncodeToBytes(b) ==
    IF Len(b) = 1 /\ b[1] < 128 THEN b ELSE <<128 + Len(b)>> \o b

\* rlp.Split: the content of an encoded byte string
Split(enc) ==
    IF enc[1] < 128 THEN <<enc[1]>> ELSE SubSeq(enc, 2, 1 + (enc[1] - 128))

\* the value written to the storage trie for a storage value
EncodeValue(value) == EncodeToBytes(TrimLeft(value))

\* mutant: the stored bytes are taken as the value without rlp.Split
DecodeValueNoSplit(enc) == BytesToHash(enc)

\* the storage value read back from the storage trie
DecodeValue(enc) == BytesToHash(Split(enc))

\* rlp encoding of the persisted account: the list of its three fields
EncodeAccount(a) == <<a.Balance, a.CodeHash, a.StorageRoot>>

\* rlp.DecodeBytes(enc, &data)
DecodeAccount(enc) ==
    [Balance |-> enc[1], CodeHash |-> enc[2], StorageRoot |-> enc[3]]

\* ---------------------------------------------------------------- maps
\* m[k] = v on a Go map
MapPut(m, k, v) == [x \in DOMAIN m \cup {k} |-> IF x = k THEN v ELSE m[x]]

\* delete(m, k) on a Go map
MapDelete(m, k) == [x \in DOMAIN m \ {k} |-> m[x]]

\* ---------------------------------------------------------------- tries
\* content of a storage trie / of the account trie with no entry
EmptyStorage == [k \in Keys |-> <<>>]
EmptyTrie == [a \in Addresses |-> <<>>]

\* trie.Hash(): the digest of a content
TrieHash(t) == [zero |-> FALSE, nodes |-> t]

\* cry.Hash{} where a storage root / a state root is expected
ZeroStorageRoot == [zero |-> TRUE, nodes |-> EmptyStorage]
ZeroRoot == [zero |-> TRUE, nodes |-> EmptyTrie]

\* the key/value store: code blobs by key, and the committed tries
EmptyKV == [code |-> [h \in {} |-> <<>>], storage |-> {}, state |-> {}]

\* Trie.NewSecure(root, kv, 0) for a storage trie
NewStorageTrie(root, kv) ==
    IF root.zero \/ root.nodes = EmptyStorage
    THEN [err |-> NoError, trie |-> EmptyStorage]
    ELSE IF root.nodes \in kv.storage
    THEN [err |-> NoError, trie |-> root.nodes]
    ELSE [err |-> "newTrie", trie |-> EmptyStorage]

\* Trie.NewSecure(root, kv, 0) for the account trie
NewStateTrie(root, kv) ==
    IF root.zero \/ root.nodes = EmptyTrie
    THEN [err |-> NoError, trie |-> EmptyTrie]
    ELSE IF root.nodes \in kv.state
    THEN [err |-> NoError, trie |-> root.nodes]
    ELSE [err |-> "newTrie", trie |-> EmptyTrie]

\* New(root, kv)
New(root, kv) ==
    LET r == NewStateTrie(root, kv) IN
    [err |-> r.err,
     s |-> [trie |-> r.trie, kv |-> kv,
            cachedAccounts |-> [a \in {} |-> 0], err |-> NoError]]

\* ---------------------------------------------------------------- accessors
\* the outcome of a call: the State after it, the value returned, the kind of
\* the external failure met during the call, whether the call panicked, and
\* the trie roots the call committed to the store, in order
Outcome(st, ret, fired) ==
    [s |-> st, ret |-> ret, fired |-> fired, panic |-> FALSE, puts |-> <<>>]

\* the cachedAccount made for an address the account trie has no entry for
NewCachedAccount ==
    [isDirty |-> FALSE, storageStep |-> noStorage, balance |-> 0,
     code |-> NilCode, codeHash |-> Keccak256Nil,
     storageRoot |-> ZeroStorageRoot,
     storage |-> [k \in {} |-> ZeroHash], storageTrie |-> <<>>]

\* the cachedAccount made from a decoded account and its code
LoadedCachedAccount(data, code) ==
    [isDirty |-> FALSE, storageStep |-> noStorage, balance |-> data.Balance,
     code |-> code, codeHash |-> data.CodeHash,
     storageRoot |-> data.StorageRoot,
     storage |-> [k \in {} |-> ZeroHash], storageTrie |-> <<>>]

WithAccount(st, addr, a) ==
    [st EXCEPT !.cachedAccounts = MapPut(st.cachedAccounts, addr, a)]

\* getAccount: the State with addr cached, or the error
getAccount(st, addr, f) ==
    IF addr \in DOMAIN st.cachedAccounts THEN [s |-> st, err |-> NoError]
    ELSE IF f = "trieGet"
    THEN [s |-> [st EXCEPT !.err = "trieGet"], err |-> "trieGet"]
    ELSE LET enc == st.trie[addr] IN
    IF Len(enc) = 0
    THEN [s |-> WithAccount(st, addr, NewCachedAccount), err |-> NoError]
    ELSE IF f = "decode" THEN [s |-> st, err |-> "decode"]
    ELSE LET data == DecodeAccount(enc) IN
    IF data.CodeHash # Keccak256Nil
    THEN IF f = "kvGet" \/ data.CodeHash \notin DOMAIN st.kv.code
         THEN [s |-> st, err |-> "kvGet"]
         ELSE [s |-> WithAccount(st, addr,
                        LoadedCachedAccount(data, SomeCode(st.kv.code[data.CodeHash]))),
               err |-> NoError]
    ELSE [s |-> WithAccount(st, addr, LoadedCachedAccount(data, NilCode)),
          err |-> NoError]

\* getTrie: the storage trie of a cached account, opened when not yet open
getTrie(st, addr, f) ==
    LET a == st.cachedAccounts[addr] IN
    IF a.storageTrie # <<>>
    THEN [s |-> st, err |-> NoError, trie |-> a.storageTrie[1]]
    ELSE IF f = "newTrie" THEN [s |-> st, err |-> "newTrie", trie |-> EmptyStorage]
    ELSE LET r == NewStorageTrie(a.storageRoot, st.kv) IN
    IF r.err # NoError THEN [s |-> st, err |-> r.err, trie |-> EmptyStorage]
    ELSE [s |-> WithAccount(st, addr, [a EXCEPT !.storageTrie = <<r.trie>>]),
          err |-> NoError, trie |-> r.trie]

Failed(st, e, ret) == Outcome([st EXCEPT !.err = e], ret, e)

\* GetBalance after its call g of getAccount
GetBalanceWith(g, addr) ==
    IF g.err # NoError THEN Failed(g.s, g.err, 0)
    ELSE Outcome(g.s, g.s.cachedAccounts[addr].balance, NoFault)

GetBalance(st, addr, f) == GetBalanceWith(getAccount(st, addr, f), addr)

\* mutant: the account is marked dirty but the balance is not assigned
SetBalanceDirtyOnly(g, addr, balance) ==
    IF g.err # NoError THEN Failed(g.s, g.err, 0)
    ELSE Outcome(WithAccount(g.s, addr,
            [g.s.cachedAccounts[addr] EXCEPT !.isDirty = TRUE]), 0, NoFault)

\* SetBalance after its call g of getAccount
SetBalanceWith(g, addr, balance) ==
    IF g.err # NoError THEN Failed(g.s, g.err, 0)
    ELSE Outcome(WithAccount(g.s, addr,
            [g.s.cachedAccounts[addr] EXCEPT !.isDirty = TRUE, !.balance = balance]),
            0, NoFault)

SetBalance(st, addr, balance, f) ==
    SetBalanceWith(getAccount(st, addr, f), addr, balance)

\* mutant: the value is written to the overlay but the storage step is left
SetStorageOverlayOnly(g, addr, key, value) ==
    IF g.err # NoError THEN Failed(g.s, g.err, 0)
    ELSE Outcome(WithAccount(g.s, addr,
            [g.s.cachedAccounts[addr] EXCEPT
                !.storage = MapPut(g.s.cachedAccounts[addr].storage, key, value)]),
            0, NoFault)

\* SetStorage after its call g of getAccount
SetStorageWith(g, addr, key, value) ==
    IF g.err # NoError THEN Failed(g.s, g.err, 0)
    ELSE Outcome(WithAccount(g.s, addr,
            [g.s.cachedAccounts[addr] EXCEPT
                !.storageStep = storageSet,
                !.storage = MapPut(g.s.cachedAccounts[addr].storage, key, value)]),
            0, NoFault)

SetStorage(st, addr, key, value, f) ==
    SetStorageWith(getAccount(st, addr, f), addr, key, value)

\* GetStorage, lines 129-136: the value decoded from the trie is put in the
\* overlay and returned
GetStorageDecoded(st, addr, key, value) ==
    Outcome(WithAccount(st, addr,
                [st.cachedAccounts[addr] EXCEPT
                    !.storage = MapPut(st.cachedAccounts[addr].storage, key, value)]),
            value, NoFault)

\* GetStorage after its call t of getTrie
GetStorageFrom(t, addr, key, f) ==
    IF t.err # NoError THEN Failed(t.s, t.err, ZeroHash)
    ELSE IF f = "storageGet" THEN Failed(t.s, "storageGet", ZeroHash)
    ELSE IF Len(t.trie[key]) = 0 THEN Outcome(t.s, ZeroHash, NoFault)
    ELSE IF f = "split" THEN Failed(t.s, "split", ZeroHash)
    ELSE GetStorageDecoded(t.s, addr, key, DecodeValue(t.trie[key]))

\* GetStorage after its call g of getAccount
GetStorageWith(g, addr, key, f) ==
    IF g.err # NoError THEN Failed(g.s, g.err, ZeroHash)
    ELSE GetStorageFrom(getTrie(g.s, addr, f), addr, key, f)

GetStorage(st, addr, key, f) ==
    IF addr \in DOMAIN st.cachedAccounts
       /\ key \in DOMAIN st.cachedAccounts[addr].storage
    THEN Outcome(st, st.cachedAccounts[addr].storage[key], NoFault)
    ELSE GetStorageWith(getAccount(st, addr, f), addr, key, f)

\* GetCode after its call g of getAccount
GetCodeWith(g, addr) ==
    IF g.err # NoError THEN Failed(g.s, g.err, NilCode)
    ELSE Outcome(g.s, g.s.cachedAccounts[addr].code, NoFault)

GetCode(st, addr, f) == GetCodeWith(getAccount(st, addr, f), addr)

\* SetCode, lines 157-159: s.kv.Put(codeHash[:], code)
PutCode(st, codeHash, code, f) ==
    IF f = "kvPut" THEN [st EXCEPT !.err = "kvPut"]
    ELSE [st EXCEPT !.kv.code = MapPut(st.kv.code, codeHash, code.bytes)]

\* SetCode, lines 160-162, after the put
SetCodeAssign(st, addr, codeHash, code, f) ==
    Outcome(WithAccount(st, addr,
                [st.cachedAccounts[addr] EXCEPT
                    !.isDirty = TRUE, !.codeHash = codeHash, !.code = code]),
            0, IF f = "kvPut" THEN "kvPut" ELSE NoFault)

\* SetCode after its call g of getAccount
SetCodeWith(g, addr, code, f) ==
    IF g.err # NoError THEN Failed(g.s, g.err, 0)
    ELSE SetCodeAssign(PutCode(g.s, BytesToHash(code.bytes), code, f),
                       addr, BytesToHash(code.bytes), code, f)

SetCode(st, addr, code, f) == SetCodeWith(getAccount(st, addr, f), addr, code, f)

Exists(st, addr, f) ==
    IF addr \in DOMAIN st.cachedAccounts THEN Outcome(st, TRUE, NoFault)
    ELSE IF f = "trieGet" THEN Failed(st, "trieGet", FALSE)
    ELSE Outcome(st, Len(st.trie[addr]) # 0, NoFault)

\* Delete, line 183: delete(s.cachedAccounts, address)
Uncached(st, address) ==
    [st EXCEPT !.cachedAccounts = MapDelete(st.cachedAccounts, address)]

\* mutant: the trie entry is deleted but the cache entry is kept
DeleteTrieOnly(st, address, f) ==
    IF f = "trieDelete" THEN Failed(st, "trieDelete", 0)
    ELSE Outcome([st EXCEPT !.trie[address] = <<>>], 0, NoFault)

\* mutant: the cache entry is removed but the trie entry is left in place
DeleteCacheOnly(st, address, f) == Outcome(Uncached(st, address), 0, NoFault)

Delete(st, address, f) ==
    IF f = "trieDelete" THEN Failed(Uncached(st, address), "trieDelete", 0)
    ELSE Outcome([Uncached(st, address) EXCEPT !.trie[address] = <<>>], 0, NoFault)

\* ---------------------------------------------------------------- Root
\* isEmpty: zero balance and no code
isEmpty(a) == a.balance = 0 /\ a.code.isNil

\* the cached addresses among a visiting order, in that order
RECURSIVE Visited(_, _)
Visited(order, present) ==
    IF order = <<>> THEN <<>>
    ELSE IF Head(order) \in present
         THEN <<Head(order)>> \o Visited(Tail(order), present)
         ELSE Visited(Tail(order), present)

\* updateStorage, lines 211-217: one overlay entry pushed into the trie
Pushed(a, key) ==
    [a EXCEPT !.storageTrie[1][key] = EncodeValue(a.storage[key]),
              !.storage = MapDelete(a.storage, key)]

\* the loop of updateStorage over the overlay, keys visited in the order given;
\* nilTrie: the loop returned (nil, nil) after a failed TryUpdate
RECURSIVE updateStorageLoop(_, _, _, _)
updateStorageLoop(st, addr, keys, f) ==
    IF keys = <<>>
    THEN [s |-> st, err |-> NoError, nilTrie |-> FALSE, fired |-> NoFault]
    ELSE IF f = "storageUpdate"
    THEN [s |-> [st EXCEPT !.err = NoError], err |-> NoError,
          nilTrie |-> TRUE, fired |-> "storageUpdate"]
    ELSE updateStorageLoop(
            WithAccount(st, addr, Pushed(st.cachedAccounts[addr], Head(keys))),
            addr, Tail(keys), f)

\* updateStorage after its call t of getTrie
updateStorageWith(t, addr, f, korder) ==
    IF t.err # NoError
    THEN [s |-> t.s, err |-> t.err, nilTrie |-> TRUE, fired |-> t.err]
    ELSE updateStorageLoop(t.s, addr,
            Visited(korder, DOMAIN t.s.cachedAccounts[addr].storage), f)

\* updateStorage: push the overlay of addr into its storage trie
updateStorage(st, addr, f, korder) ==
    updateStorageWith(getTrie(st, addr, f), addr, f, korder)

\* updateAccount, lines 225-229: the account to encode
AccountOf(c) ==
    [Balance |-> c.balance, CodeHash |-> c.codeHash, StorageRoot |-> c.storageRoot]

\* updateAccount: write the encoded account into the account trie
updateAccount(st, address, f) ==
    IF f = "encode" THEN [s |-> st, err |-> "encode"]
    ELSE IF f = "trieUpdate"
    THEN [s |-> [st EXCEPT !.err = "trieUpdate"], err |-> "trieUpdate"]
    ELSE [s |-> [st EXCEPT !.trie[address] =
                    EncodeAccount(AccountOf(st.cachedAccounts[address]))],
          err |-> NoError]

\* what one iteration of Root's loop yields: the State, whether Root returned
\* the zero hash from inside the loop, whether it panicked, the failure met
Visit(st, stop, panic, fired) ==
    [s |-> st, stop |-> stop, panic |-> panic, fired |-> fired]

\* mutant: the dirty flag is not cleared after the account was written
flushedAccountStillDirty(u, addr) ==
    IF u.err # NoError
    THEN Visit([u.s EXCEPT !.err = u.err], TRUE, FALSE, u.err)
    ELSE Visit(u.s, FALSE, FALSE, NoFault)

\* Root, lines 336-340, after its call u of updateAccount
flushedAccount(u, addr) ==
    IF u.err # NoError
    THEN Visit([u.s EXCEPT !.err = u.err], TRUE, FALSE, u.err)
    ELSE Visit([u.s EXCEPT !.cachedAccounts[addr].isDirty = FALSE],
               FALSE, FALSE, NoFault)

\* Root, lines 335-341: write a dirty account into the account trie
flushAccount(st, addr, f) ==
    IF st.cachedAccounts[addr].isDirty
    THEN flushedAccount(updateAccount(st, addr, f), addr)
    ELSE Visit(st, FALSE, FALSE, NoFault)

\* mutant: the storage root is not recomputed after the overlay was pushed
syncedAccountStaleRoot(a) ==
    [a EXCEPT !.isDirty = TRUE, !.storageStep = storageUpdated]

\* Root, lines 331-333: the account after its overlay was pushed
syncedAccount(a) ==
    [a EXCEPT !.storageRoot = TrieHash(a.storageTrie[1]),
              !.isDirty = TRUE,
              !.storageStep = storageUpdated]

\* Root, lines 327-333, after its call u of updateStorage
syncedStorage(u, addr) ==
    IF u.err # NoError
    THEN Visit([u.s EXCEPT !.err = u.err], TRUE, FALSE, u.fired)
    ELSE IF u.nilTrie
    THEN Visit(u.s, TRUE, TRUE, u.fired)
    ELSE Visit(WithAccount(u.s, addr, syncedAccount(u.s.cachedAccounts[addr])),
               FALSE, FALSE, NoFault)

\* Root, lines 325-334: push the overlay of an account whose storage was set
syncStorage(st, addr, f, korder) ==
    IF st.cachedAccounts[addr].storageStep = storageSet
    THEN syncedStorage(updateStorage(st, addr, f, korder), addr)
    ELSE Visit(st, FALSE, FALSE, NoFault)

\* Root, lines 321-323: an empty account is deleted, the loop continues
pruneAccount(d) == Visit(d.s, FALSE, FALSE, d.fired)

\* Root, lines 335-341 after lines 325-334 yielded y
flushAfter(y, addr, f) == IF y.stop THEN y ELSE flushAccount(y.s, addr, f)

\* mutant: an empty account with pending storage writes is synced and
\* written instead of pruned
RootVisitSyncFirst(st, addr, f, korder) ==
    IF isEmpty(st.cachedAccounts[addr])
       /\ st.cachedAccounts[addr].storageStep # storageSet
    THEN pruneAccount(Delete(st, addr, f))
    ELSE flushAfter(syncStorage(st, addr, f, korder), addr, f)

\* mutant: an account whose storage was just pushed is not written to the
\* account trie in the same pass (the three cases are exclusive)
RootVisitElseIf(st, addr, f, korder) ==
    IF isEmpty(st.cachedAccounts[addr])
    THEN pruneAccount(Delete(st, addr, f))
    ELSE IF st.cachedAccounts[addr].storageStep = storageSet
    THEN syncStorage(st, addr, f, korder)
    ELSE flushAccount(st, addr, f)

\* mutant: Root returns at the first pruned account (return for continue)
RootVisitBreak(st, addr, f, korder) ==
    IF isEmpty(st.cachedAccounts[addr])
    THEN Visit(Delete(st, addr, f).s, TRUE, FALSE, NoFault)
    ELSE flushAfter(syncStorage(st, addr, f, korder), addr, f)

\* Root, lines 321-341: the body of the loop for one cached account
RootVisit(st, addr, f, korder) ==
    IF isEmpty(st.cachedAccounts[addr])
    THEN pruneAccount(Delete(st, addr, f))
    ELSE flushAfter(syncStorage(st, addr, f, korder), addr, f)

FirstFault(a, b) == IF a # NoFault THEN a ELSE b

\* the outcome w of the rest of the loop, after an iteration that met fired
AfterVisit(fired, w) == Visit(w.s, w.stop, w.panic, FirstFault(fired, w.fired))

RECURSIVE RootLoop(_, _, _, _)

\* Root's loop after the iteration v of its first account
RootLoopAfter(v, todo, f, korder) ==
    IF v.stop THEN v
    ELSE AfterVisit(v.fired, RootLoop(v.s, todo, f, korder))

\* Root, lines 320-342: the loop over the cache, in the order given
RootLoop(st, todo, f, korder) ==
    IF todo = <<>> THEN Visit(st, FALSE, FALSE, NoFault)
    ELSE RootLoopAfter(RootVisit(st, Head(todo), f, korder), Tail(todo), f, korder)

\* mutant: Root commits the account trie instead of hashing it
RootPersistingReturn(v) ==
    [s |-> [v.s EXCEPT !.kv.state = @ \cup {v.s.trie}],
     ret |-> IF v.stop THEN ZeroRoot ELSE TrieHash(v.s.trie),
     fired |-> v.fired, panic |-> v.panic, puts |-> <<>>]

\* Root, line 343 (or the zero hash returned from the loop)
RootReturn(v) ==
    [s |-> v.s,
     ret |-> IF v.stop THEN ZeroRoot ELSE TrieHash(v.s.trie),
     fired |-> v.fired, panic |-> v.panic, puts |-> <<>>]

\* Root
Root(st, f, order, korder) ==
    RootReturn(RootLoop(st, Visited(order, DOMAIN st.cachedAccounts), f, korder))

\* ---------------------------------------------------------------- Commit
\* a trie root written to the store
StoragePut(t) == [kind |-> "storage", storage |-> t, state |-> EmptyTrie]
StatePut(t) == [kind |-> "state", storage |-> EmptyStorage, state |-> t]

\* the outcome w of the rest of Commit's loop, after an iteration that
\* committed the roots in puts
AfterCommitted(puts, w) == [w EXCEPT !.puts = puts \o w.puts]

RECURSIVE CommitLoop(_, _, _)

\* Commit, lines 297-308: an account whose storage trie t is to be committed
CommitStorage(t, addr, todo, f) ==
    IF t.err # NoError
    THEN [s |-> [t.s EXCEPT !.err = t.err], stop |-> TRUE, fired |-> t.err,
          puts |-> <<>>]
    ELSE IF f = "storageCommit"
    THEN [s |-> [t.s EXCEPT !.err = "storageCommit"], stop |-> TRUE,
          fired |-> "storageCommit", puts |-> <<>>]
    ELSE AfterCommitted(<<StoragePut(t.trie)>>,
            CommitLoop(Uncached([t.s EXCEPT !.kv.storage = @ \cup {t.trie}], addr),
                       todo, f))

\* Commit, lines 296-309: commit the synced storage tries, empty the cache
CommitLoop(st, todo, f) ==
    IF todo = <<>> THEN [s |-> st, stop |-> FALSE, fired |-> NoFault, puts |-> <<>>]
    ELSE IF st.cachedAccounts[Head(todo)].storageStep = storageUpdated
    THEN CommitStorage(getTrie(st, Head(todo), f), Head(todo), Tail(todo), f)
    ELSE CommitLoop(Uncached(st, Head(todo)), Tail(todo), f)

\* mutant: the account trie is hashed but not committed
commitTrieHashOnly(st, f) ==
    [s |-> st, ret |-> TrieHash(st.trie),
     fired |-> NoFault, panic |-> FALSE, puts |-> <<>>]

\* Commit, lines 310-315: commit the account trie
commitTrie(st, f) ==
    IF f = "trieCommit"
    THEN [s |-> [st EXCEPT !.err = "trieCommit"], ret |-> ZeroRoot,
          fired |-> "trieCommit", panic |-> FALSE, puts |-> <<>>]
    ELSE [s |-> [st EXCEPT !.kv.state = @ \cup {st.trie}], ret |-> TrieHash(st.trie),
          fired |-> NoFault, panic |-> FALSE, puts |-> <<StatePut(st.trie)>>]

\* Commit after its loop c and the commit g of the account trie
CommitReturn(fired, c, g) ==
    [g EXCEPT !.fired = FirstFault(fired, FirstFault(c.fired, g.fired)),
              !.puts = c.puts \o g.puts]

\* Commit, lines 296-315, after Root() met the failure fired
CommitAfterLoop(fired, c, f) ==
    IF c.stop
    THEN [s |-> c.s, ret |-> ZeroRoot, fired |-> FirstFault(fired, c.fired),
          panic |-> FALSE, puts |-> c.puts]
    ELSE CommitReturn(fired, c, commitTrie(c.s, f))

\* Commit, lines 296-315, after its call r of Root()
CommitAfterRoot(r, f, order2) ==
    IF r.panic THEN r
    ELSE CommitAfterLoop(r.fired,
            CommitLoop(r.s, Visited(order2, DOMAIN r.s.cachedAccounts), f), f)

\* Commit
Commit(st, f, order, order2, korder) ==
    CommitAfterRoot(Root(st, f, order, korder), f, order2)

\* ---------------------------------------------------------------- state
VARIABLES
    s,          \* the State: trie, kv, cachedAccounts, err
    lastCall,   \* the last call made on the State, its address, key and code
                \* arguments, and the cached accounts that were empty when it
                \* started
    again,      \* the last call is the same operation as the call before it
    ret,        \* the value that call returned, in the field of its type
    fired,      \* the kind of external failure met during that call
    puts,       \* the trie roots that call committed to the store, in order
    crashed,    \* the call panicked
    steps,      \* calls made so far
    nfaults,    \* calls so far during which an external operation failed
    commits,    \* Commit() calls made so far: 0, 1, or 2 for more
    live,       \* per address: the balance and storage values set on the
                \* State and not since dropped by pruning, Delete or Commit
    hist        \* per address, until the first Commit: the balance and
                \* storage values set since the State was opened

vars == <<s, lastCall, again, ret, fired, puts, crashed, steps, nfaults, commits, live, hist>>

Call(op, addr, key) ==
    [op |-> op, addr |-> addr, key |-> key, code |-> NilCode, pruned |-> {}]

\* the value a call returned: a balance, a storage value, a code, a boolean
\* or a root, by operation
NoReturn ==
    [balance |-> 0, hash |-> ZeroHash, code |-> NilCode, exists |-> FALSE,
     root |-> ZeroRoot]
ReturnOf(op, v) ==
    IF op = "GetBalance" THEN [NoReturn EXCEPT !.balance = v]
    ELSE IF op = "GetStorage" THEN [NoReturn EXCEPT !.hash = v]
    ELSE IF op = "GetCode" THEN [NoReturn EXCEPT !.code = v]
    ELSE IF op = "Exists" THEN [NoReturn EXCEPT !.exists = v]
    ELSE IF op \in {"Root", "Commit"} THEN [NoReturn EXCEPT !.root = v]
    ELSE NoReturn

NoMap == [k \in {} |-> ZeroHash]
NoLive == [bal |-> <<>>, st |-> NoMap]
\* ok: only SetBalance with a positive balance and SetStorage were called on
\* the address; early: Root() ran after a storage write to the address and
\* before its balance was set
NoHist == [ok |-> TRUE, bal |-> 0, st |-> NoMap, early |-> FALSE]
DeadHist == [ok |-> FALSE, bal |-> 0, st |-> NoMap, early |-> FALSE]

\* all orders in which a Go map over S can be iterated
Orders(S) ==
    {p \in [1..Cardinality(S) -> S] : \A i, j \in DOMAIN p : i # j => p[i] # p[j]}

Init ==
    /\ s = New(ZeroRoot, EmptyKV).s
    /\ lastCall = Call("New", "", ZeroHash)
    /\ again = FALSE
    /\ ret = NoReturn
    /\ fired = NoFault
    /\ puts = <<>>
    /\ crashed = FALSE
    /\ steps = 0
    /\ nfaults = 0
    /\ commits = 0
    /\ live = [a \in Addresses |-> NoLive]
    /\ hist = [a \in Addresses |-> NoHist]

\* the cached accounts Root() prunes
Pruned(st) == {a \in DOMAIN st.cachedAccounts : isEmpty(st.cachedAccounts[a])}

LiveAfter(call, arg, out) ==
    IF out.fired # NoFault \/ out.panic THEN live
    ELSE IF call.op = "SetBalance" THEN [live EXCEPT ![call.addr].bal = <<arg>>]
    ELSE IF call.op = "SetStorage"
    THEN [live EXCEPT ![call.addr].st = MapPut(@, call.key, arg)]
    ELSE IF call.op = "Delete" THEN [live EXCEPT ![call.addr] = NoLive]
    ELSE IF call.op = "Root"
    THEN [a \in Addresses |->
            [bal |-> IF live[a].bal = <<0>> THEN <<>> ELSE live[a].bal,
             st |-> IF a \in Pruned(s) THEN NoMap ELSE live[a].st]]
    ELSE IF call.op = "Commit" THEN [a \in Addresses |-> NoLive]
    ELSE live

HistAfter(call, arg, out) ==
    IF commits > 0 \/ out.fired # NoFault \/ out.panic
    THEN [a \in Addresses |-> DeadHist]
    ELSE IF call.op \in {"Root", "Commit"}
    THEN [a \in Addresses |->
            IF hist[a].ok /\ call.op = "Root" /\ hist[a].bal = 0 /\ DOMAIN hist[a].st # {}
            THEN [hist[a] EXCEPT !.early = TRUE] ELSE hist[a]]
    ELSE IF ~hist[call.addr].ok THEN hist
    ELSE IF call.op = "SetBalance" /\ arg > 0 THEN [hist EXCEPT ![call.addr].bal = arg]
    ELSE IF call.op = "SetStorage"
    THEN [hist EXCEPT ![call.addr].st = MapPut(@, call.key, arg)]
    ELSE [hist EXCEPT ![call.addr] = DeadHist]

\* one call on the State: call with argument arg, failing external operation
\* f, outcome out; at most limit calls are made
Do(call, arg, f, out, limit) ==
    /\ ~crashed
    /\ steps < limit
    /\ f # NoFault => nfaults < MaxFaults /\ out.fired # NoFault
    /\ s' = out.s
    /\ lastCall' = [call EXCEPT !.pruned =
                        IF call.op \in {"Root", "Commit"} THEN Pruned(s) ELSE {}]
    /\ again' = (call.op = lastCall.op)
    /\ ret' = IF out.panic THEN NoReturn ELSE ReturnOf(call.op, out.ret)
    /\ fired' = out.fired
    /\ puts' = out.puts
    /\ crashed' = out.panic
    /\ steps' = steps + 1
    /\ nfaults' = IF out.fired # NoFault /\ nfaults < MaxFaults THEN nfaults + 1 ELSE nfaults
    /\ commits' = IF call.op = "Commit" /\ commits < 2 THEN commits + 1 ELSE commits
    /\ live' = LiveAfter(call, arg, out)
    /\ hist' = HistAfter(call, arg, out)

Faults == FaultKinds \cup {NoFault}

DoGetBalance(F, limit) ==
    \E addr \in Addresses, f \in F :
        Do(Call("GetBalance", addr, ZeroHash), 0, f, GetBalance(s, addr, f), limit)

DoSetBalance(F, limit) ==
    \E addr \in Addresses, balance \in Balances, f \in F :
        Do(Call("SetBalance", addr, ZeroHash), balance, f,
           SetBalance(s, addr, balance, f), limit)

DoSetStorage(F, limit) ==
    \E addr \in Addresses, key \in Keys, value \in Values, f \in F :
        Do(Call("SetStorage", addr, key), value, f,
           SetStorage(s, addr, key, value, f), limit)

DoGetStorage(F, limit) ==
    \E addr \in Addresses, key \in Keys, f \in F :
        Do(Call("GetStorage", addr, key), 0, f, GetStorage(s, addr, key, f), limit)

DoGetCode(F, limit) ==
    \E addr \in Addresses, f \in F :
        Do(Call("GetCode", addr, ZeroHash), 0, f, GetCode(s, addr, f), limit)

DoSetCode(F, limit) ==
    \E addr \in Addresses, code \in Codes, f \in F :
        Do([Call("SetCode", addr, ZeroHash) EXCEPT !.code = code], code, f,
           SetCode(s, addr, code, f), limit)

DoExists(F, limit) ==
    \E addr \in Addresses, f \in F :
        Do(Call("Exists", addr, ZeroHash), 0, f, Exists(s, addr, f), limit)

DoDelete(F, limit) ==
    \E addr \in Addresses, f \in F :
        Do(Call("Delete", addr, ZeroHash), 0, f, Delete(s, addr, f), limit)

DoRoot(F, limit) ==
    \E f \in F, order \in Orders(Addresses), korder \in Orders(Keys) :
        Do(Call("Root", "", ZeroHash), 0, f, Root(s, f, order, korder), limit)

DoCommit(F, limit) ==
    \E f \in F, order \in Orders(Addresses), order2 \in Orders(Addresses),
       korder \in Orders(Keys) :
        Do(Call("Commit", "", ZeroHash), 0, f,
           Commit(s, f, order, order2, korder), limit)

\* every call may meet a failing external operation
Next ==
    \/ DoGetBalance(Faults, MaxSteps)
    \/ DoSetBalance(Faults, MaxSteps)
    \/ DoSetStorage(Faults, MaxSteps)
    \/ DoGetStorage(Faults, MaxSteps)
    \/ DoGetCode(Faults, MaxSteps)
    \/ DoSetCode(Faults, MaxSteps)
    \/ DoExists(Faults, MaxSteps)
    \/ DoDelete(Faults, MaxSteps)
    \/ DoRoot(Faults, MaxSteps)
    \/ DoCommit(Faults, MaxSteps)

Spec == Init /\ [][Next]_vars

\* no external operation fails
NextNoFault ==
    \/ DoGetBalance({NoFault}, MaxCalls)
    \/ DoSetBalance({NoFault}, MaxCalls)
    \/ DoSetStorage({NoFault}, MaxCalls)
    \/ DoGetStorage({NoFault}, MaxCalls)
    \/ DoGetCode({NoFault}, MaxCalls)
    \/ DoSetCode({NoFault}, MaxCalls)
    \/ DoExists({NoFault}, MaxCalls)
    \/ DoDelete({NoFault}, MaxCalls)
    \/ DoRoot({NoFault}, MaxCalls)
    \/ DoCommit({NoFault}, MaxCalls)

SpecNoFault == Init /\ [][NextNoFault]_vars

TypeOK ==
    /\ DOMAIN s.cachedAccounts \subseteq Addresses
    /\ steps \in 0..(MaxSteps + MaxCalls)
    /\ nfaults \in 0..MaxFaults

\* ---------------------------------------------------------------- claims
\* no external operation has failed and no call has panicked
FaultFree == nfaults = 0 /\ fired = NoFault /\ ~crashed

\* a fresh State opened at root over the store of s reads, for address a, the
\* balance and the storage values recorded in hist
DurableAt(root, a) ==
    LET v == New(root, s.kv)
        b == GetBalance(v.s, a, NoFault) IN
    /\ v.err = NoError
    /\ b.fired = NoFault
    /\ b.ret = hist[a].bal
    /\ \A k \in DOMAIN hist[a].st :
          LET g == GetStorage(v.s, a, k, NoFault) IN
          g.fired = NoFault /\ g.ret = hist[a].st[k]

\* the first Commit() of the State has just returned without a fault
AfterFirstCommit == lastCall.op = "Commit" /\ commits = 1 /\ FaultFree

\* C1 as stated: after SetBalance(A, b) with b > 0 and SetStorage(A, k, v)
\* calls in any order, with any Root() calls interleaved, and a fault-free
\* Commit() returning D, a fresh State opened at D reads balance b and, for
\* every written key, the last value written.
C1_DurableAnyOrder ==
    AfterFirstCommit =>
        \A a \in Addresses : (hist[a].ok /\ hist[a].bal > 0) => DurableAt(ret.root, a)

\* C1 amended: the same, provided no Root() ran after a storage write to A
\* and before the first SetBalance(A, b).
C1_Durable ==
    AfterFirstCommit =>
        \A a \in Addresses :
            (hist[a].ok /\ hist[a].bal > 0 /\ ~hist[a].early) => DurableAt(ret.root, a)

C1_Witness ==
    /\ AfterFirstCommit
    /\ \E a \in Addresses :
          /\ hist[a].ok /\ hist[a].bal > 0 /\ ~hist[a].early
          /\ \E k \in DOMAIN hist[a].st : hist[a].st[k] # ZeroHash
          /\ DurableAt(ret.root, a)

\* C2: after a fault-free Root() or Commit(), every address whose cached
\* account had zero balance and no code when the call started has no cache
\* entry and no entry in the account trie, and Exists reports false.
C2_Pruning ==
    (lastCall.op \in {"Root", "Commit"} /\ FaultFree) =>
        \A a \in lastCall.pruned :
            /\ a \notin DOMAIN s.cachedAccounts
            /\ s.trie[a] = <<>>
            /\ Exists(s, a, NoFault).ret = FALSE

\* an account that was in a committed account trie has been pruned
C2_Witness ==
    /\ lastCall.op \in {"Root", "Commit"} /\ FaultFree
    /\ \E a \in lastCall.pruned :
          /\ \E t \in s.kv.state : t[a] # <<>>
          /\ Exists(s, a, NoFault).ret = FALSE

\* the call just made is op, and it met no failure
Returned(op) == lastCall'.op = op /\ steps' = steps + 1 /\ FaultFree'

\* the content of the storage trie of a cached account once every value of
\* its overlay is applied to it
ExpectedStorage(a) ==
    LET c == s.cachedAccounts[a]
        base == IF c.storageTrie # <<>> THEN c.storageTrie[1]
                ELSE NewStorageTrie(c.storageRoot, s.kv).trie IN
    [k \in Keys |-> IF k \in DOMAIN c.storage THEN EncodeValue(c.storage[k]) ELSE base[k]]

\* x is committed to the store before y
PutBefore(log, x, y) ==
    \E i, j \in DOMAIN log : i < j /\ log[i] = x /\ log[j] = y

\* C3: after a fault-free Commit() of a non-empty account whose storage was
\* written since it was loaded, the account trie holds for it a record whose
\* storageRoot is the digest of its storage trie with all written values
\* applied, and that storage trie was committed to the store before the
\* account trie was.
C3_StorageBeforeAccounts ==
    [][Returned("Commit") =>
        \A a \in DOMAIN s.cachedAccounts :
            (~isEmpty(s.cachedAccounts[a])
             /\ s.cachedAccounts[a].storageStep # noStorage) =>
                /\ s'.trie[a] # <<>>
                /\ DecodeAccount(s'.trie[a]).StorageRoot = TrieHash(ExpectedStorage(a))
                /\ ExpectedStorage(a) \in s'.kv.storage
                /\ s'.trie \in s'.kv.state
                /\ PutBefore(puts', StoragePut(ExpectedStorage(a)), StatePut(s'.trie))
      ]_vars

\* a Commit() has persisted an account with written storage
C3_Witness ==
    /\ lastCall.op = "Commit" /\ FaultFree
    /\ \E a \in Addresses :
          /\ s.trie[a] # <<>>
          /\ ~DecodeAccount(s.trie[a]).StorageRoot.zero
          /\ DecodeAccount(s.trie[a]).StorageRoot.nodes # EmptyStorage
          /\ PutBefore(puts, StoragePut(DecodeAccount(s.trie[a]).StorageRoot.nodes),
                       StatePut(s.trie))

\* C4: GetStorage(addr, k) returns the value last written by
\* SetStorage(addr, k, v), zero included, before any Root() and after Root()
\* has flushed the overlay, as long as the account was not pruned or deleted
\* (and no Commit() ran); writes to other keys and addresses do not change it.
C4_StorageRoundTrip ==
    FaultFree =>
        \A a \in Addresses : \A k \in DOMAIN live[a].st :
            LET g == GetStorage(s, a, k, NoFault) IN
            g.fired = NoFault /\ g.ret = live[a].st[k]

\* GetStorage has read a written zero value back from the storage trie,
\* after Root() flushed the overlay
C4_Witness ==
    /\ lastCall.op = "GetStorage" /\ FaultFree
    /\ lastCall.key \in DOMAIN live[lastCall.addr].st
    /\ ret.hash = live[lastCall.addr].st[lastCall.key]
    /\ ret.hash = ZeroHash
    /\ s.cachedAccounts[lastCall.addr].storageStep = storageUpdated
    /\ s.cachedAccounts[lastCall.addr].storageTrie[1][lastCall.key] = <<128>>

\* C5: GetBalance(addr) returns the value of the last SetBalance(addr, v)
\* as long as no Commit() ran since, whatever fault-free calls were made in
\* between (Root() included when v is not zero).
C5_BalanceRoundTrip ==
    FaultFree =>
        \A a \in Addresses :
            live[a].bal # <<>> =>
                LET g == GetBalance(s, a, NoFault) IN
                g.fired = NoFault /\ g.ret = live[a].bal[1]

\* GetBalance has returned a balance that was set and then flushed by Root()
C5_Witness ==
    /\ lastCall.op = "GetBalance" /\ FaultFree
    /\ live[lastCall.addr].bal = <<ret.balance>>
    /\ ret.balance = 2
    /\ ~s.cachedAccounts[lastCall.addr].isDirty

\* C6: a Root() that follows a fault-free Root() with no call in between
\* returns the same digest and changes nothing: not the cache (entries,
\* dirty flags, storage steps, overlays, storage tries) nor the account trie.
C6_RootIdempotent ==
    [][(lastCall.op = "Root" /\ FaultFree /\ Returned("Root")) =>
            (ret' = ret /\ s' = s)
      ]_vars

\* Root() has run twice in a row over a cache holding a flushed account
C6_Witness ==
    /\ lastCall.op = "Root" /\ again /\ FaultFree
    /\ ret.root = TrieHash(s.trie)
    /\ \E a \in DOMAIN s.cachedAccounts :
          s.cachedAccounts[a].storageStep = storageUpdated

\* C7: the digest Commit() returns does not depend on the order in which
\* Root() and Commit() iterate the cache nor on the order in which
\* updateStorage iterates an overlay: whatever order the call took, every
\* other order yields the digest it returned.
C7_Deterministic ==
    [][Returned("Commit") =>
        \A order \in Orders(Addresses), order2 \in Orders(Addresses),
           korder \in Orders(Keys) :
            Commit(s, NoFault, order, order2, korder).ret = ret'.root
      ]_vars

\* Commit() has returned the digest of a trie holding every address, one of
\* them with storage
C7_Witness ==
    /\ lastCall.op = "Commit" /\ FaultFree
    /\ ret.root = TrieHash(s.trie)
    /\ \A a \in Addresses : s.trie[a] # <<>>
    /\ \E a \in Addresses : DecodeAccount(s.trie[a]).StorageRoot.nodes # EmptyStorage

\* C8: Root() never writes to the key/value store, whether it fails or not.
C8_RootLeavesStore ==
    [][(lastCall'.op = "Root" /\ steps' = steps + 1) => s'.kv = s.kv]_vars

\* Root() has put into the account trie an account with flushed storage,
\* and neither trie is in the store
C8_Witness ==
    /\ lastCall.op = "Root"
    /\ s.trie \notin s.kv.state
    /\ \E a \in DOMAIN s.cachedAccounts :
          /\ s.cachedAccounts[a].storageStep = storageUpdated
          /\ s.trie[a] # <<>>
          /\ s.cachedAccounts[a].storageTrie[1] \notin s.kv.storage

\* C9: whenever an external operation fails during Root(), Root() returns
\* the zero hash and Error() is non-nil afterwards (stated for a failure that
\* is the first of the run).
C9_RootShortCircuits ==
    (lastCall.op = "Root" /\ fired # NoFault /\ nfaults = 1) =>
        (~crashed /\ ret.root = ZeroRoot /\ s.err # NoError)

\* C10: whenever an external operation fails during Commit(), in its Root()
\* step or in a storage-trie commit, Commit() returns the zero hash, Error()
\* is non-nil, and the account trie is not committed to the store (stated
\* for a failure that is the first of the run).
C10_CommitAborts ==
    (lastCall.op = "Commit" /\ fired # NoFault /\ nfaults = 1) =>
        /\ ~crashed
        /\ ret.root = ZeroRoot
        /\ s.err # NoError
        /\ \A i \in DOMAIN puts : puts[i].kind # "state"

\* C11: once an operation has recorded a fault, Error() keeps returning that
\* fault: no later call, failing or not, replaces it or resets it to nil.
C11_StickyFirstFault ==
    [][s.err # NoError => s'.err = s.err]_vars

\* the storage step of the cache entry of a across the step: a new entry
\* starts at noStorage (and is at storageSet when SetStorage made it); a
\* living entry keeps its step, or SetStorage on it sets storageSet, or Root()
\* takes it from storageSet to storageUpdated, emptying the overlay, setting
\* storageRoot to the digest of the storage trie and writing the account
StorageStepMoves(a) ==
    /\ (a \notin DOMAIN s.cachedAccounts /\ a \in DOMAIN s'.cachedAccounts) =>
          \/ s'.cachedAccounts[a].storageStep = noStorage
          \/ /\ lastCall'.op = "SetStorage" /\ lastCall'.addr = a
             /\ s'.cachedAccounts[a].storageStep = storageSet
    /\ (a \in DOMAIN s.cachedAccounts /\ a \in DOMAIN s'.cachedAccounts) =>
          \/ /\ s'.cachedAccounts[a].storageStep = s.cachedAccounts[a].storageStep
             /\ ~(lastCall'.op = "SetStorage" /\ lastCall'.addr = a)
          \/ /\ lastCall'.op = "SetStorage" /\ lastCall'.addr = a
             /\ s'.cachedAccounts[a].storageStep = storageSet
          \/ /\ lastCall'.op = "Root"
             /\ s.cachedAccounts[a].storageStep = storageSet
             /\ s'.cachedAccounts[a].storageStep = storageUpdated
             /\ DOMAIN s'.cachedAccounts[a].storage = {}
             /\ s'.cachedAccounts[a].storageTrie = <<ExpectedStorage(a)>>
             /\ s'.cachedAccounts[a].storageRoot = TrieHash(ExpectedStorage(a))
             /\ s'.trie[a] = EncodeAccount(AccountOf(s'.cachedAccounts[a]))
    /\ (lastCall'.op = "SetStorage" /\ lastCall'.addr = a) =>
          a \in DOMAIN s'.cachedAccounts

\* the storage tries of the accounts of st that are at storageUpdated
SyncedTries(st) ==
    {StoragePut(st.cachedAccounts[a].storageTrie[1]) :
        a \in {b \in DOMAIN st.cachedAccounts :
                  st.cachedAccounts[b].storageStep = storageUpdated}}

\* C12: a cache entry starts at None; while it lives its storage phase only
\* moves to Pending by SetStorage and from Pending to Synced by Root(), which
\* then empties the overlay, sets storageRoot to the storage trie's digest
\* and marks the account dirty (so that it is written); it never returns to
\* None; Commit() persists the storage tries of exactly the accounts that
\* are Synced after its Root() step.
C12_StoragePhases ==
    [][(steps' = steps + 1 /\ FaultFree') =>
          /\ \A a \in Addresses : StorageStepMoves(a)
          /\ lastCall'.op = "Commit" =>
                \A order \in Orders(Addresses), korder \in Orders(Keys) :
                    {puts'[i] : i \in {j \in DOMAIN puts' : puts'[j].kind = "storage"}}
                        = SyncedTries(Root(s, NoFault, order, korder).s)
      ]_vars

\* SetStorage has taken an account from Synced, its storage trie holding a
\* flushed value, back to Pending
C12_Witness ==
    /\ lastCall.op = "SetStorage" /\ FaultFree
    /\ s.cachedAccounts[lastCall.addr].storageStep = storageSet
    /\ s.cachedAccounts[lastCall.addr].storageTrie # <<>>
    /\ s.cachedAccounts[lastCall.addr].storageTrie[1] # EmptyStorage
    /\ s.trie[lastCall.addr] # <<>>

\* C13: after a fault-free Root(), no cached account is empty, Pending or
\* dirty; every cached account that was dirty or Pending when the call
\* started has in the account trie the encoding of its current balance,
\* codeHash and storageRoot; an account that was Pending is Synced, its
\* storageRoot the digest of its storage trie with the overlay applied, and
\* is written to the account trie by that same call.
C13_RootPostcondition ==
    [][Returned("Root") =>
        /\ \A a \in DOMAIN s'.cachedAccounts :
              /\ ~isEmpty(s'.cachedAccounts[a])
              /\ s'.cachedAccounts[a].storageStep # storageSet
              /\ ~s'.cachedAccounts[a].isDirty
        /\ \A a \in DOMAIN s.cachedAccounts \cap DOMAIN s'.cachedAccounts :
              /\ (s.cachedAccounts[a].isDirty
                  \/ s.cachedAccounts[a].storageStep = storageSet) =>
                    s'.trie[a] = EncodeAccount(AccountOf(s'.cachedAccounts[a]))
              /\ s.cachedAccounts[a].storageStep = storageSet =>
                    /\ s'.cachedAccounts[a].storageStep = storageUpdated
                    /\ s'.cachedAccounts[a].storageRoot = TrieHash(ExpectedStorage(a))
                    /\ DecodeAccount(s'.trie[a]).StorageRoot = TrieHash(ExpectedStorage(a))
        /\ \A a \in DOMAIN s.cachedAccounts :
              ~isEmpty(s.cachedAccounts[a]) => a \in DOMAIN s'.cachedAccounts
      ]_vars

\* Root() has left two accounts written to the account trie, one of them
\* Synced with a storage root that is not the empty one
C13_Witness ==
    /\ lastCall.op = "Root" /\ FaultFree
    /\ \E a, b \in DOMAIN s.cachedAccounts :
          /\ a # b
          /\ s.cachedAccounts[a].storageStep = storageUpdated
          /\ s.cachedAccounts[a].storageRoot.nodes # EmptyStorage
          /\ s.trie[a] = EncodeAccount(AccountOf(s.cachedAccounts[a]))
          /\ s.cachedAccounts[b].storageStep = noStorage
          /\ s.trie[b] = EncodeAccount(AccountOf(s.cachedAccounts[b]))

\* C14: when Root() visits a cached account with zero balance and no code
\* whose storage phase is Pending, it removes it from the cache and from the
\* account trie and pushes nothing: the pending writes are gone, and a later
\* GetStorage(addr, k) on that State returns the zero hash for every key.
C14_PruneBeforeSync ==
    [][Returned("Root") =>
        \A a \in DOMAIN s.cachedAccounts :
            (isEmpty(s.cachedAccounts[a])
             /\ s.cachedAccounts[a].storageStep = storageSet) =>
                /\ a \notin DOMAIN s'.cachedAccounts
                /\ s'.trie[a] = <<>>
                /\ s'.kv = s.kv
                /\ \A k \in Keys :
                      LET g == GetStorage(s', a, k, NoFault) IN
                      g.fired = NoFault /\ g.ret = ZeroHash
      ]_vars

\* Root() has pruned an account to which a non-zero storage value had been
\* written, and the value is gone
C14_Witness ==
    /\ lastCall.op = "Root" /\ FaultFree
    /\ \E a \in lastCall.pruned :
          /\ hist[a].ok /\ hist[a].early
          /\ \E k \in DOMAIN hist[a].st :
                /\ hist[a].st[k] # ZeroHash
                /\ GetStorage(s, a, k, NoFault).ret = ZeroHash

\* C15: in every reachable state, every cached account whose code is absent
\* has codeHash equal to the hash of the empty byte string, and so has the
\* record written for it to the account trie; also after SetCode(addr, c)
\* with c absent.
C15_CodeHashOfNoCode ==
    \A a \in DOMAIN s.cachedAccounts :
        s.cachedAccounts[a].code.isNil =>
            /\ s.cachedAccounts[a].codeHash = Keccak256Nil
            /\ (s.trie[a] # <<>> /\ ~s.cachedAccounts[a].isDirty) =>
                  DecodeAccount(s.trie[a]).CodeHash = Keccak256Nil

\* C16: SetCode(addr, c) sets codeHash to the content hash of c and at once
\* stores c under it in the key/value store, so that GetCode(addr) returns c
\* on the same State, and after a fault-free Commit() a fresh State opened
\* at the returned digest returns GetCode(addr) = c, whatever codes were set
\* for other addresses.
C16_CodeRoundTrip ==
    [][/\ Returned("SetCode") =>
            /\ s'.cachedAccounts[lastCall'.addr].codeHash \in DOMAIN s'.kv.code
            /\ s'.kv.code[s'.cachedAccounts[lastCall'.addr].codeHash]
                  = lastCall'.code.bytes
            /\ GetCode(s', lastCall'.addr, NoFault).ret = lastCall'.code
       /\ Returned("Commit") =>
            \A a \in DOMAIN s.cachedAccounts :
                ~s.cachedAccounts[a].code.isNil =>
                    /\ New(ret'.root, s'.kv).err = NoError
                    /\ GetCode(New(ret'.root, s'.kv).s, a, NoFault).ret
                          = s.cachedAccounts[a].code
      ]_vars

\* C17: right after a fault-free Delete(addr), addr has no cache entry and no
\* entry in the account trie: Exists(addr) is false and Root(), with no call
\* in between, returns the digest of a trie without addr; the balance, code
\* and storage of addr read as zero defaults; the cache entries and trie
\* entries of the other addresses, and the store, are unchanged.
C17_DeleteImmediate ==
    [][Returned("Delete") =>
        /\ lastCall'.addr \notin DOMAIN s'.cachedAccounts
        /\ s'.trie[lastCall'.addr] = <<>>
        /\ Exists(s', lastCall'.addr, NoFault).ret = FALSE
        /\ \A order \in Orders(Addresses), korder \in Orders(Keys) :
              /\ ~Root(s', NoFault, order, korder).ret.zero
              /\ Root(s', NoFault, order, korder).ret.nodes[lastCall'.addr] = <<>>
        /\ GetBalance(s', lastCall'.addr, NoFault).ret = 0
        /\ GetCode(s', lastCall'.addr, NoFault).ret = NilCode
        /\ \A k \in Keys : GetStorage(s', lastCall'.addr, k, NoFault).ret = ZeroHash
        /\ \A b \in Addresses \ {lastCall'.addr} :
              /\ b \in DOMAIN s'.cachedAccounts <=> b \in DOMAIN s.cachedAccounts
              /\ b \in DOMAIN s.cachedAccounts =>
                    s'.cachedAccounts[b] = s.cachedAccounts[b]
              /\ s'.trie[b] = s.trie[b]
        /\ s'.kv = s.kv
      ]_vars

\* Delete has removed an account that a Commit() had persisted, while
\* another address has a dirty cache entry
C17_Witness ==
    /\ lastCall.op = "Delete" /\ FaultFree
    /\ s.trie[lastCall.addr] = <<>>
    /\ \E t \in s.kv.state : t[lastCall.addr] # <<>>
    /\ \E b \in DOMAIN s.cachedAccounts :
          b # lastCall.addr /\ s.cachedAccounts[b].isDirty

\* what GetBalance, GetCode (the bytes) and GetStorage (for every key)
\* return for a on st
Reads(st, a) ==
    [balance |-> GetBalance(st, a, NoFault).ret,
     code |-> GetCode(st, a, NoFault).ret.bytes,
     storage |-> [k \in Keys |-> GetStorage(st, a, k, NoFault).ret]]

\* the account of a is not empty on st
NonEmptyOn(st, a) ==
    GetBalance(st, a, NoFault).ret # 0 \/ ~GetCode(st, a, NoFault).ret.isNil

\* C18: after a fault-free Commit() the cache holds no entry, Root() called
\* right after returns the digest Commit() returned, and for every address
\* whose account was not empty at the Commit(), GetBalance, GetCode and
\* GetStorage (for every key) return what they returned right before it.
C18_CommitKeepsReads ==
    [][Returned("Commit") =>
        /\ DOMAIN s'.cachedAccounts = {}
        /\ \A order \in Orders(Addresses), korder \in Orders(Keys) :
              Root(s', NoFault, order, korder).ret = ret'.root
        /\ \A a \in Addresses :
              NonEmptyOn(s, a) => Reads(s', a) = Reads(s, a)
      ]_vars

\* C19: a fault-free GetBalance, GetCode, GetStorage or Exists call, on any
\* address, leaves the digest Root() returns equal to the digest Root() would
\* have returned without the call (so does any sequence of such calls),
\* although the call may create a cache entry or an overlay entry.
C19_ReadsKeepRoot ==
    [][(lastCall'.op \in {"GetBalance", "GetCode", "GetStorage", "Exists"}
        /\ steps' = steps + 1 /\ FaultFree') =>
            \A order \in Orders(Addresses), korder \in Orders(Keys) :
                Root(s', NoFault, order, korder).ret
                    = Root(s, NoFault, order, korder).ret
      ]_vars

\* the fields of a cached account a caller can tell apart
Visible(c) ==
    [balance |-> c.balance, code |-> c.code, codeHash |-> c.codeHash,
     isDirty |-> c.isDirty, storageStep |-> c.storageStep, storage |-> c.storage]

\* C20: when a trie read, a decode or a key/value get or put fails inside
\* GetBalance, SetBalance, GetStorage, SetStorage, GetCode, SetCode or
\* Exists, Error() is non-nil afterwards, a getter returns its zero default,
\* and the cached account of the address is left as it was before the call
\* (stated for a failure that is the first of the run).
C20_FailureAtomicity ==
    [][(lastCall'.op \in {"GetBalance", "SetBalance", "GetStorage", "SetStorage",
                          "GetCode", "SetCode", "Exists"}
        /\ steps' = steps + 1 /\ fired' # NoFault /\ nfaults' = 1) =>
            /\ s'.err # NoError
            /\ ret' = NoReturn
            /\ lastCall'.addr \in DOMAIN s.cachedAccounts =>
                  /\ lastCall'.addr \in DOMAIN s'.cachedAccounts
                  /\ Visible(s'.cachedAccounts[lastCall'.addr])
                        = Visible(s.cachedAccounts[lastCall'.addr])
      ]_vars

====
